---- MODULE Spec2Model ----
(***************************************************************************)
(* Speech playback controller of the ChatBot component                     *)
(* (src/unnamed/part_000): handleSpeak, stopSpeaking, cleanTextForTTS and  *)
(* the timers and utterance callbacks they install, running against the    *)
(* platform speech engine (window.speechSynthesis).                        *)
(*                                                                         *)
(* Time is counted in units of 50 ms, the greatest common divisor of the   *)
(* delays of the source (50, 100, 200, 300, 500, 1000 ms).  Every timer is *)
(* a countdown; Tick lets one unit pass when no armed timer is due.        *)
(***************************************************************************)
EXTENDS Integers, Sequences, FiniteSets, TLC

\* ------------------------------------------------------------- bounds
\* number of handleSpeak calls made in one behaviour
MaxCalls == 2
\* longest input text (in code points) given to cleanTextForTTS
MaxLen == 3
\* voices in a catalog handed to the voice selection
MaxVoices == 3
\* changes of the voice list of the platform after the mount
MaxVoiceChanges == 1

\* ------------------------------------------------------------- delays (units of 50 ms)
StopDelay == 2
BusyDelay == 4
PreSubmitDelay == 1
CancelDelay == 1
FirstCheckDelay == 2
SecondCheckDelay == 10
ImmediateRetryDelay == 2
PollPeriod == 6
StartTimeoutDelay == 20
RetryCreateDelay == 4
RetrySubmitDelay == 2
\* consecutiveActiveChecks needed for the polling path to assume a start
ActiveChecksNeeded == 3
\* lines 69-78: the period of checkInterval and the time after which it is
\* cleared; lines 233-253: maxAttempts and the period of checkVoices
CheckIntervalPeriod == 2
CheckIntervalLife == 60
maxAttempts == 30
CheckVoicesPeriod == 2

\* ------------------------------------------------------------- text
\* A text is a JavaScript string: a sequence of UTF-16 code units, in which a
\* surrogate may stand without its partner.  The regular expressions of lines
\* 188-200 carry the u flag, so they match code points: a high surrogate
\* followed by a low one is one code point, any other code unit is a code
\* point of its own.
\* Sample code units: space, line feed, the letter A, the two surrogates
\* D83D DC4B of U+1F44B waving hand, U+2764 heavy black heart, U+2B50 white
\* medium star, U+200D zero width joiner, U+FE0F variation selector-16.
Alphabet == {32, 10, 65, 55357, 56395, 10084, 11088, 8205, 65039}

\* the text begins with a surrogate pair
SurrogatePair(text) ==
    /\ Len(text) >= 2
    /\ text[1] \in 55296..56319
    /\ text[2] \in 56320..57343

\* the code point encoded by the surrogate pair hi, lo
CodePointOf(hi, lo) == 65536 + (hi - 55296) * 1024 + (lo - 56320)

\* the characters matched by \s (and removed at the ends by trim())
IsSpace(cp) ==
    \/ cp \in {9, 10, 11, 12, 13, 32, 160, 5760, 8232, 8233, 8239, 8287, 12288, 65279}
    \/ cp \in 8192..8202

RECURSIVE StripRange(_, _, _)
\* text.replace(/[\u{lo}-\u{hi}]/gu, "")
StripRange(text, lo, hi) ==
    IF text = <<>> THEN <<>>
    ELSE LET n == IF SurrogatePair(text) THEN 2 ELSE 1
             cp == IF SurrogatePair(text) THEN CodePointOf(text[1], text[2]) ELSE Head(text)
             rest == SubSeq(text, n + 1, Len(text))
         IN IF cp >= lo /\ cp <= hi
            THEN StripRange(rest, lo, hi)
            ELSE SubSeq(text, 1, n) \o StripRange(rest, lo, hi)

RECURSIVE CollapseSpaces(_)
\* text.replace(/\s+/g, " ")
CollapseSpaces(text) ==
    IF text = <<>> THEN <<>>
    ELSE IF IsSpace(Head(text))
         THEN IF Tail(text) # <<>> /\ IsSpace(Head(Tail(text)))
              THEN CollapseSpaces(Tail(text))
              ELSE <<32>> \o CollapseSpaces(Tail(text))
         ELSE <<Head(text)>> \o CollapseSpaces(Tail(text))

RECURSIVE TrimStart(_)
TrimStart(text) ==
    IF text # <<>> /\ IsSpace(Head(text)) THEN TrimStart(Tail(text)) ELSE text

RECURSIVE TrimEnd(_)
TrimEnd(text) ==
    IF text # <<>> /\ IsSpace(text[Len(text)])
    THEN TrimEnd(SubSeq(text, 1, Len(text) - 1))
    ELSE text

\* text.trim()
Trim(text) == TrimEnd(TrimStart(text))

\* the removed code point ranges, in the order of the replace() chain
StripRanges ==
    << <<127744, 129535>>, <<9728, 9983>>, <<9984, 10175>>, <<128512, 128591>>,
       <<128640, 128767>>, <<127456, 127487>>, <<129280, 129535>>, <<129536, 129647>>,
       <<129648, 129791>>, <<65024, 65039>>, <<8205, 8205>>, <<8204, 8205>> >>

RECURSIVE StripAll(_, _)
StripAll(text, i) ==
    IF i > Len(StripRanges) THEN text
    ELSE StripAll(StripRange(text, StripRanges[i][1], StripRanges[i][2]), i + 1)

cleanTextForTTS(text) == Trim(CollapseSpaces(StripAll(text, 1)))

RECURSIVE TextsOfLen(_)
TextsOfLen(n) ==
    IF n = 0 THEN {<<>>}
    ELSE {<<a>> \o t : a \in Alphabet, t \in TextsOfLen(n - 1)}

Texts == UNION {TextsOfLen(n) : n \in 0..MaxLen}

\* ------------------------------------------------------------- state
VARIABLES
    queue,            \* engine: utterances submitted and not yet terminal, head first
    headStarted,      \* engine: the head of the queue has begun to speak
    events,           \* engine: callback events queued on the event loop, oldest first
    isSpeaking,       \* React state isSpeaking
    cur,              \* currentUtteranceRef.current
    voicesRef,        \* voicesRef.current (language tags)
    voicesLoadedRef,  \* voicesLoadedRef.current
    platformVoices,   \* what speechSynthesis.getVoices() returns now
    boot,             \* the timers of the effect of lines 44-86, and a pending voiceschanged event
    call,             \* per handleSpeak call: position, closure variables, timers
    textIn,           \* argument of the last cleanTextForTTS application
    textOut           \* its result

vars == <<queue, headStarted, events, isSpeaking, cur, voicesRef, voicesLoadedRef,
          platformVoices, boot, call, textIn, textOut>>

Calls == 1..MaxCalls

\* the utterance object created at line 297 of call c, and the one at line 560
U(c) == <<"utterance", c>>
R(c) == <<"retryUtterance", c>>
NoUtt == <<"null", 0>>

\* texts handed to handleSpeak: an emoji-only message and a message with words
SpeakTexts == {<<55357, 56395, 32>>, <<65, 55357, 56395>>}

\* language tags of voices (v.lang), character by character
KoKR == <<"k", "o", "-", "K", "R">>
Ko == <<"k", "o">>
KoKP == <<"k", "o", "-", "K", "P">>
EnKR == <<"e", "n", "-", "K", "R">>
EnUS == <<"e", "n", "-", "U", "S">>
Langs == {KoKR, Ko, KoKP, EnKR, EnUS}

\* a voice catalog of the platform
SomeVoices == <<EnUS, KoKR>>

\* what getVoices() may return while the component lives
VoiceCatalogs == {<<>>, <<EnUS>>, SomeVoices}

\* the effect of lines 44-86 has no timer left and no event pending
BootDone ==
    [checkInterval |-> FALSE, t |-> 0, clearOn |-> FALSE, left |-> 0, changed |-> FALSE,
     changes |-> 0]

\* window.speechSynthesis.speaking || window.speechSynthesis.pending
Busy == queue # <<>>

NewCall ==
    [pc |-> "idle", t |-> 0, text |-> <<>>, closureSpeaking |-> FALSE,
     checkVoices |-> FALSE, attempts |-> 0, voices |-> <<>>, voice |-> 0,
     chk |-> "off", tChk |-> 0,
     pollOn |-> FALSE, tPoll |-> 0, cnt |-> 0, det |-> FALSE,
     to |-> "off", tTo |-> 0,
     \* history, read by the properties only
     subs |-> 0, contBusy |-> FALSE, age |-> 0, sawBusy |-> FALSE,
     startCb |-> FALSE, silent |-> FALSE, terminal |-> FALSE, pollEnded |-> FALSE,
     stopped |-> FALSE]

\* The component is mounted and the platform has its voices.  Either the
\* effect of lines 44-86 has cached them (loadVoices at mount, on voiceschanged
\* or on a tick of its 100 ms interval), or they came after that interval gave
\* up (3 s) on a platform that does not announce them, and the cache is still
\* empty.
Init ==
    /\ queue = <<>>
    /\ headStarted = FALSE
    /\ events = <<>>
    /\ isSpeaking = FALSE
    /\ cur = NoUtt
    /\ platformVoices = SomeVoices
    /\ voicesLoadedRef \in BOOLEAN
    /\ voicesRef = IF voicesLoadedRef THEN SomeVoices ELSE <<>>
    /\ boot = BootDone
    /\ call = [c \in Calls |-> NewCall]
    /\ textIn = <<>>
    /\ textOut = <<>>

QueueSet(q) == {q[i] : i \in 1..Len(q)}

\* Applied to the call records by every step.  The closure variables of the
\* status interval are dead once the utterance of the call is no longer the
\* current one (the handler compares the ref with its utterance in both
\* branches, and the ref receives that utterance only once, before the interval
\* exists), the captured isSpeaking is dead once the 600 ms check has run, and
\* the countdown of a timer is dead once the timer is cleared or has fired:
\* dead variables are reset.  The history fields: contBusy[c] says the engine
\* has been busy at every instant since call c submitted its utterance while
\* that utterance has stayed the current one, age counts the time for which
\* that has lasted, sawBusy says a flag read of call c found the engine busy,
\* startCb that the start callback of its utterance has run.
Track(nc, q, cu) ==
    [c \in Calls |->
        LET mine == cu = U(c)
            ok == nc[c].contBusy /\ q # <<>> /\ mine
        IN [nc[c] EXCEPT !.contBusy = ok,
                         !.age = IF ok THEN @ ELSE 0,
                         !.sawBusy = @ /\ mine,
                         !.startCb = @ /\ mine,
                         !.tPoll = IF mine /\ nc[c].pollOn THEN @ ELSE 0,
                         !.tTo = IF nc[c].to = "off" THEN 0 ELSE @,
                         !.tChk = IF nc[c].chk = "off" THEN 0 ELSE @,
                         !.cnt = IF mine THEN @ ELSE 0,
                         !.det = @ /\ mine,
                         !.closureSpeaking = @ /\ (nc[c].pc # "submitted" \/ nc[c].chk \in {"first", "second"})]]

\* speechSynthesis.cancel(): the queue is emptied; the platform may report
\* the removed utterances through their error callbacks
CancelEvents(fire) ==
    IF fire THEN events \o [i \in 1..Len(queue) |-> <<queue[i], "finish">>] ELSE events

\* speechSynthesis.speak(u): u joins the queue of the engine (which may drop
\* it later without a word, see EngineFinish)
Enqueue(q, u) == Append(q, u)

Unchanged_voices == UNCHANGED <<voicesRef, voicesLoadedRef, platformVoices, boot>>
Unchanged_text == UNCHANGED <<textIn, textOut>>
Unchanged_engine == UNCHANGED <<queue, headStarted, events>>

\* ------------------------------------------------------------- stopSpeaking
\* line 170: stopSpeaking acts only when the engine reports speaking or pending
StopCancels == Busy

\* lines 171-173: what stopSpeaking leaves in isSpeaking, in the ref and in
\* the queue of the engine
StopIsSpeaking == IF StopCancels THEN FALSE ELSE isSpeaking
StopCur == IF StopCancels THEN NoUtt ELSE cur
StopQueue == IF StopCancels THEN <<>> ELSE queue

\* ------------------------------------------------------------- handleSpeak
\* mutant of NoContent: the guard never takes the early return
NoContentNever(cleaned) == FALSE

\* line 267: !cleanedText || cleanedText.length === 0
NoContent(cleaned) == cleaned = <<>>

\* String.prototype.startsWith and String.prototype.includes
StartsWith(s, p) == Len(s) >= Len(p) /\ SubSeq(s, 1, Len(p)) = p
Includes(s, p) == \E i \in 1..(Len(s) - Len(p) + 1) : SubSeq(s, i, i + Len(p) - 1) = p

\* Array.prototype.find, given the indices of the voices that pass its test:
\* the index of the first of them, 0 for undefined
Find(hits) == IF hits = {} THEN 0 ELSE CHOOSE i \in hits : \A j \in hits : i <= j

\* the three tests of lines 322-324
LangIsKoKR(lang) == lang = KoKR
LangStartsWithKo(lang) == StartsWith(lang, Ko)
LangIncludesKR(lang) == Includes(lang, <<"K", "R">>)

\* mutant of SelectVoice: the prefix test is tried before the exact one
SelectVoicePrefixFirst(availableVoices) ==
    LET exact == Find({i \in 1..Len(availableVoices) : LangIsKoKR(availableVoices[i])})
        prefix == Find({i \in 1..Len(availableVoices) : LangStartsWithKo(availableVoices[i])})
        region == Find({i \in 1..Len(availableVoices) : LangIncludesKR(availableVoices[i])})
    IN IF prefix # 0 THEN prefix
       ELSE IF exact # 0 THEN exact
       ELSE IF region # 0 THEN region
       ELSE IF availableVoices # <<>> THEN 1 ELSE 0

\* lines 321-335: the index in availableVoices of the voice given to the
\* utterance, 0 when utterance.voice is left to the platform default
SelectVoice(availableVoices) ==
    LET exact == Find({i \in 1..Len(availableVoices) : LangIsKoKR(availableVoices[i])})
        prefix == Find({i \in 1..Len(availableVoices) : LangStartsWithKo(availableVoices[i])})
        region == Find({i \in 1..Len(availableVoices) : LangIncludesKR(availableVoices[i])})
    IN IF exact # 0 THEN exact
       ELSE IF prefix # 0 THEN prefix
       ELSE IF region # 0 THEN region
       ELSE IF availableVoices # <<>> THEN 1 ELSE 0

\* line 319: voices.length > 0 ? voices : window.speechSynthesis.getVoices()
AvailableVoices(voices) == IF voices # <<>> THEN voices ELSE platformVoices

\* lines 297-411: the utterance is created and stored in the ref, its voice
\* is selected, the callbacks are attached, and the call sleeps 50 ms before
\* submitting
CreateUtterance(c, r) ==
    /\ cur' = U(c)
    /\ call' = Track([call EXCEPT ![c] =
                 [r EXCEPT !.pc = "preSubmit", !.t = PreSubmitDelay,
                           !.voice = SelectVoice(AvailableVoices(r.voices))]],
                 queue, U(c))

\* mutant of VoicesCached: waitForVoices never answers from the cache
VoicesCachedNever == FALSE

\* line 215: waitForVoices answers from the cache
VoicesCached == voicesLoadedRef /\ voicesRef # <<>>

\* lines 213-229: waitForVoices resolves at once, from the cache or from what
\* the platform returns now, which it caches
WaitForVoicesNow ==
    /\ VoicesCached \/ platformVoices # <<>>
    /\ voicesRef' = IF VoicesCached THEN voicesRef ELSE platformVoices
    /\ voicesLoadedRef' = TRUE
    /\ UNCHANGED platformVoices

\* lines 292-297, with voices the catalog waitForVoices resolved with: a
\* busy engine makes the call sleep 200 ms before creating the utterance
GotVoices(c, r, voices) ==
    LET rv == [r EXCEPT !.voices = voices, !.attempts = 0]
    IN IF Busy
       THEN /\ call' = Track([call EXCEPT ![c] = [rv EXCEPT !.pc = "busyWait", !.t = BusyDelay]],
                             queue, cur)
            /\ UNCHANGED cur
       ELSE CreateUtterance(c, rv)

\* lines 278-295: waitForVoices resolves at once, or it starts its interval
\* checkVoices (lines 231-253) and the call waits for it
AfterVoices(c, r) ==
    /\ IF VoicesCached \/ platformVoices # <<>>
       THEN /\ WaitForVoicesNow
            /\ GotVoices(c, r, voicesRef')
       ELSE /\ call' = Track([call EXCEPT ![c] =
                         [r EXCEPT !.pc = "voicesWait", !.checkVoices = TRUE,
                                   !.t = CheckVoicesPeriod, !.attempts = 0]],
                         queue, cur)
            /\ UNCHANGED <<cur, voicesRef, voicesLoadedRef, platformVoices>>
    /\ UNCHANGED boot

\* handleSpeak(text) up to its first sleep.  An await of a promise that is
\* already resolved yields only to microtasks, so no timer, callback or click
\* runs in between.
Speak(c, text) ==
    /\ call[c].pc = "idle"
    /\ \A d \in Calls : d < c => call[d].pc # "idle"
    /\ LET cleaned == cleanTextForTTS(text)
           r == [call[c] EXCEPT !.text = cleaned, !.closureSpeaking = isSpeaking]
       IN IF NoContent(cleaned)
          THEN /\ call' = Track([call EXCEPT ![c].pc = "aborted"], queue, cur)
               /\ UNCHANGED <<queue, headStarted, events, isSpeaking, cur>>
               /\ Unchanged_voices
          ELSE IF StopCancels
          THEN \* stopSpeaking, lines 170-176
               \E fire \in BOOLEAN :
                 /\ events' = CancelEvents(fire)
                 /\ queue' = StopQueue
                 /\ headStarted' = FALSE
                 /\ isSpeaking' = StopIsSpeaking
                 /\ cur' = StopCur
                 /\ call' = Track([call EXCEPT ![c] = [r EXCEPT !.pc = "stopWait", !.t = StopDelay]],
                                  StopQueue, StopCur)
                 /\ Unchanged_voices
          ELSE \* stopSpeaking resolves at once, line 178
               /\ AfterVoices(c, r)
               /\ UNCHANGED <<queue, headStarted, events, isSpeaking>>
    /\ Unchanged_text

\* a sleep before the utterance exists is over: the 100 ms of stopSpeaking
\* (line 176), after which waitForVoices and the busy test of line 292
\* follow, or the 200 ms of line 294
SleepDone(c) ==
    /\ call[c].pc \in {"stopWait", "busyWait"}
    /\ call[c].t = 0
    /\ IF call[c].pc = "stopWait"
       THEN AfterVoices(c, call[c])
       ELSE CreateUtterance(c, call[c]) /\ Unchanged_voices
    /\ UNCHANGED <<queue, headStarted, events, isSpeaking>>
    /\ Unchanged_text

\* lines 426-594: speechSynthesis.speak(utterance), then the 100 ms check,
\* the status interval and the start timeout are armed
Submit(c) ==
    LET q == Enqueue(queue, U(c))
    IN /\ queue' = q
       /\ call' = Track([call EXCEPT ![c] =
                    [@ EXCEPT !.pc = "submitted", !.t = 0,
                              !.chk = "first", !.tChk = FirstCheckDelay,
                              !.pollOn = TRUE, !.tPoll = PollPeriod,
                              !.cnt = 0, !.det = FALSE,
                              !.to = "start", !.tTo = StartTimeoutDelay,
                              !.subs = 1, !.contBusy = TRUE, !.age = 0]],
                    q, cur)
       /\ UNCHANGED <<headStarted, events, isSpeaking, cur>>

\* the 50 ms sleep of line 411 is over: lines 421-426
PreSubmitDone(c) ==
    /\ call[c].pc = "preSubmit"
    /\ call[c].t = 0
    /\ IF Busy
       THEN \E fire \in BOOLEAN :
              /\ events' = CancelEvents(fire)
              /\ queue' = <<>>
              /\ headStarted' = FALSE
              /\ call' = Track([call EXCEPT ![c].pc = "cancelWait", ![c].t = CancelDelay],
                               <<>>, cur)
              /\ UNCHANGED <<isSpeaking, cur>>
       ELSE Submit(c)
    /\ Unchanged_voices
    /\ Unchanged_text

\* the 50 ms sleep of line 423 is over: line 426
CancelWaitDone(c) ==
    /\ call[c].pc = "cancelWait"
    /\ call[c].t = 0
    /\ Submit(c)
    /\ Unchanged_voices
    /\ Unchanged_text

\* ------------------------------------------------------------- timers of a submitted call
\* mutant of ArmSecondCheck: the follow-up check is armed in every case
ArmSecondCheckAlways(isActive) == TRUE

\* line 451: the 500 ms follow-up check is armed only when the engine is active
ArmSecondCheck(isActive) == isActive

\* lines 441-480, the check 100 ms after speak()
FirstCheck(c) ==
    /\ call[c].chk = "first"
    /\ call[c].tChk = 0
    /\ call' = Track([call EXCEPT ![c] =
                 IF ArmSecondCheck(Busy)
                 THEN [@ EXCEPT !.chk = "second", !.tChk = SecondCheckDelay, !.sawBusy = @ \/ Busy]
                 ELSE [@ EXCEPT !.chk = "off", !.sawBusy = @ \/ Busy]],
                 queue, cur)
    /\ UNCHANGED <<queue, headStarted, events, isSpeaking, cur>>
    /\ Unchanged_voices
    /\ Unchanged_text

\* lines 457-478, 500 ms later: isSpeaking is the value the closure captured
SecondCheck(c) ==
    /\ call[c].chk = "second"
    /\ call[c].tChk = 0
    /\ IF cur = U(c) /\ ~call[c].closureSpeaking /\ ~Busy
       THEN \* cancel() on an idle engine, then the 100 ms timer of line 466
            call' = Track([call EXCEPT ![c].chk = "imm", ![c].tChk = ImmediateRetryDelay],
                          queue, cur)
       ELSE call' = Track([call EXCEPT ![c].chk = "off",
                                       ![c].sawBusy = @ \/ (cur = U(c) /\ ~call[c].closureSpeaking)],
                          queue, cur)
    /\ UNCHANGED <<queue, headStarted, events, isSpeaking, cur>>
    /\ Unchanged_voices
    /\ Unchanged_text

\* lines 466-469: the same utterance is submitted again
ImmediateRetry(c) ==
    /\ call[c].chk = "imm"
    /\ call[c].tChk = 0
    /\ LET q == Enqueue(queue, U(c))
       IN /\ queue' = q
          /\ call' = Track([call EXCEPT ![c].chk = "off", ![c].subs = @ + 1], q, cur)
    /\ UNCHANGED <<headStarted, events, isSpeaking, cur>>
    /\ Unchanged_voices
    /\ Unchanged_text

\* mutant of AssumeStarted: one active check is enough
AssumeStartedEarly(cnt, det) == cnt >= 1 /\ ~det

\* mutant of AssumeStarted: one more active check is asked for
AssumeStartedLate(cnt, det) == cnt > ActiveChecksNeeded /\ ~det

\* line 494: enough consecutive active checks, and no start detected yet
AssumeStarted(cnt, det) == cnt >= ActiveChecksNeeded /\ ~det

\* mutant of EndDetected: the status interval never takes the speech as ended
EndDetectedNever(det, isActive) == FALSE

\* line 526: hasDetectedStart && !isActive
EndDetected(det, isActive) == det /\ ~isActive

\* lines 486-545, one tick of statusCheckInterval.  consecutiveActiveChecks
\* is only compared with 3 (its modulus drives a log line), so it is kept
\* saturated at ActiveChecksNeeded.
PollTick(c) ==
    /\ call[c].pollOn
    /\ call[c].tPoll = 0
    /\ cur = U(c)
    /\ LET n == IF call[c].cnt < ActiveChecksNeeded THEN call[c].cnt + 1 ELSE call[c].cnt
       IN IF Busy
          THEN IF AssumeStarted(n, call[c].det)
               THEN /\ isSpeaking' = TRUE
                    /\ call' = Track([call EXCEPT ![c] =
                                 [@ EXCEPT !.cnt = n, !.det = TRUE, !.tPoll = PollPeriod,
                                           !.sawBusy = TRUE,
                                           !.to = IF @ = "start" THEN "off" ELSE @]],
                                 queue, cur)
                    /\ UNCHANGED cur
               ELSE /\ call' = Track([call EXCEPT ![c] =
                                 [@ EXCEPT !.cnt = n, !.tPoll = PollPeriod, !.sawBusy = TRUE]],
                                 queue, cur)
                    /\ UNCHANGED <<isSpeaking, cur>>
          ELSE IF EndDetected(call[c].det, Busy)
               THEN /\ isSpeaking' = FALSE
                    /\ cur' = NoUtt
                    /\ call' = Track([call EXCEPT ![c] =
                                 [@ EXCEPT !.cnt = 0, !.det = FALSE, !.pollOn = FALSE,
                                           !.pollEnded = TRUE]],
                                 queue, NoUtt)
               ELSE /\ call' = Track([call EXCEPT ![c] =
                                 [@ EXCEPT !.cnt = 0, !.tPoll = PollPeriod]],
                                 queue, cur)
                    /\ UNCHANGED <<isSpeaking, cur>>
    /\ Unchanged_engine
    /\ Unchanged_voices
    /\ Unchanged_text

\* line 555: the retry is decided on the engine flags of this instant
ShouldRetry(isActuallySpeaking) == ~isActuallySpeaking

\* lines 548-557, the start timeout after 1 s
StartTimeout(c) ==
    /\ call[c].to = "start"
    /\ call[c].tTo = 0
    /\ IF cur = U(c) /\ ShouldRetry(Busy)
       THEN \* cancel() on an idle engine, then the 200 ms timer of line 558
            call' = Track([call EXCEPT ![c] =
                      [@ EXCEPT !.pollOn = FALSE, !.to = "create", !.tTo = RetryCreateDelay,
                                !.silent = ~call[c].sawBusy /\ ~call[c].startCb]],
                      queue, cur)
       ELSE call' = Track([call EXCEPT ![c] =
                      [@ EXCEPT !.pollOn = FALSE, !.to = "off",
                                !.sawBusy = @ \/ (cur = U(c))]],
                      queue, cur)
    /\ UNCHANGED <<queue, headStarted, events, isSpeaking, cur>>
    /\ Unchanged_voices
    /\ Unchanged_text

\* lines 558-587: the retry utterance is created and becomes the current one
RetryCreate(c) ==
    /\ call[c].to = "create"
    /\ call[c].tTo = 0
    /\ cur' = R(c)
    /\ call' = Track([call EXCEPT ![c].to = "submit", ![c].tTo = RetrySubmitDelay],
                     queue, R(c))
    /\ UNCHANGED <<queue, headStarted, events, isSpeaking>>
    /\ Unchanged_voices
    /\ Unchanged_text

\* lines 584-587: speechSynthesis.speak(retryUtterance)
RetrySubmit(c) ==
    /\ call[c].to = "submit"
    /\ call[c].tTo = 0
    /\ LET q == Enqueue(queue, R(c))
       IN /\ queue' = q
          /\ call' = Track([call EXCEPT ![c].to = "off", ![c].subs = @ + 1], q, cur)
    /\ UNCHANGED <<headStarted, events, isSpeaking, cur>>
    /\ Unchanged_voices
    /\ Unchanged_text

\* ------------------------------------------------------------- utterance callbacks
\* lines 340-366: utterance.onstart
OnStart(c) ==
    /\ isSpeaking' = TRUE
    /\ call' = Track([call EXCEPT ![c].to = IF @ = "start" THEN "off" ELSE @,
                                  ![c].startCb = TRUE],
                     queue, cur)
    /\ UNCHANGED cur

\* lines 377 and 395: the guard of the state reset in onend and onerror
OwnsRef(c) == cur = U(c)

\* lines 368-384 and 386-406: utterance.onend and utterance.onerror differ
\* only in what they log
OnEndOrError(c) ==
    LET nc == [call EXCEPT ![c].to = IF @ = "start" THEN "off" ELSE @,
                           ![c].pollOn = FALSE]
    IN IF OwnsRef(c)
       THEN /\ isSpeaking' = FALSE
            /\ cur' = NoUtt
            /\ call' = Track([nc EXCEPT ![c].terminal = TRUE], queue, NoUtt)
       ELSE /\ call' = Track(nc, queue, cur)
            /\ UNCHANGED <<isSpeaking, cur>>

\* lines 567-570: retryUtterance.onstart
OnRetryStart(c) ==
    /\ isSpeaking' = TRUE
    /\ call' = Track(call, queue, cur)
    /\ UNCHANGED cur

\* lines 571-580: retryUtterance.onend and retryUtterance.onerror
OnRetryEndOrError(c) ==
    /\ isSpeaking' = FALSE
    /\ cur' = NoUtt
    /\ call' = Track([call EXCEPT ![c].terminal = @ \/ (cur = R(c))], queue, NoUtt)

\* the event loop dispatches the oldest queued engine event to its callback
Deliver ==
    /\ events # <<>>
    /\ events' = Tail(events)
    /\ LET e == Head(events)
           c == e[1][2]
       IN IF e[1][1] = "utterance"
          THEN IF e[2] = "start" THEN OnStart(c) ELSE OnEndOrError(c)
          ELSE IF e[2] = "start" THEN OnRetryStart(c) ELSE OnRetryEndOrError(c)
    /\ UNCHANGED <<queue, headStarted>>
    /\ Unchanged_voices
    /\ Unchanged_text

\* ------------------------------------------------------------- platform speech engine
\* the engine begins to speak the head of its queue; the start event is
\* best effort
EngineStart(fire) ==
    /\ queue # <<>>
    /\ ~headStarted
    /\ headStarted' = TRUE
    /\ events' = IF fire THEN Append(events, <<Head(queue), "start">>) ELSE events
    /\ call' = Track(call, queue, cur)
    /\ UNCHANGED <<queue, isSpeaking, cur>>
    /\ Unchanged_voices
    /\ Unchanged_text

\* the engine is done with the head of its queue: it finished speaking it,
\* failed on it, or dropped it.  The end and the error event are one kind,
\* "finish": onend and onerror differ only in what they log.  The event is
\* best effort.
EngineFinish(fire) ==
    /\ queue # <<>>
    /\ queue' = Tail(queue)
    /\ headStarted' = FALSE
    /\ events' = IF fire THEN Append(events, <<Head(queue), "finish">>) ELSE events
    /\ call' = Track(call, Tail(queue), cur)
    /\ UNCHANGED <<isSpeaking, cur>>
    /\ Unchanged_voices
    /\ Unchanged_text

\* ------------------------------------------------------------- stop button
\* handleSpeak call c is in one of its sleeps before speechSynthesis.speak:
\* the 100 ms of stopSpeaking (line 176), the wait for the voices (line 278),
\* the 200 ms of line 294, the 50 ms of line 411 or the 50 ms after the cancel
\* of line 423
PreSubmission(c) ==
    \/ call[c].pc \in {"stopWait", "busyWait", "preSubmit", "cancelWait"}
    \/ call[c].checkVoices

\* history: stopSpeaking has been called from the button while the call was in
\* one of these sleeps (stopSpeaking itself has no access to the call)
StopDuringWait ==
    [c \in Calls |-> [call[c] EXCEPT !.stopped = @ \/ PreSubmission(c)]]

\* lines 168-181, reached from the toggle button of line 799, which calls
\* stopSpeaking only while it renders isSpeaking = true
StopButton ==
    /\ isSpeaking
    /\ IF StopCancels
       THEN \E fire \in BOOLEAN :
              /\ events' = CancelEvents(fire)
              /\ queue' = StopQueue
              /\ headStarted' = FALSE
              /\ isSpeaking' = StopIsSpeaking
              /\ cur' = StopCur
              /\ call' = Track(StopDuringWait, StopQueue, StopCur)
       ELSE /\ call' = Track(StopDuringWait, queue, cur)
            /\ UNCHANGED <<queue, headStarted, events, isSpeaking, cur>>
    /\ Unchanged_voices
    /\ Unchanged_text

\* ------------------------------------------------------------- time
\* a status interval whose utterance is no longer the current one does
\* nothing on any later tick (both branches of its handler compare the ref
\* with its utterance, which is stored once, before the interval is created),
\* so its countdown is left where it is
PollLive(c) == call[c].pollOn /\ cur = U(c)

Waiting(c) ==
    \/ call[c].pc \in {"stopWait", "busyWait", "preSubmit", "cancelWait"}
    \/ call[c].checkVoices

TimerDue(c) ==
    \/ Waiting(c) /\ call[c].t = 0
    \/ call[c].chk # "off" /\ call[c].tChk = 0
    \/ PollLive(c) /\ call[c].tPoll = 0
    \/ call[c].to # "off" /\ call[c].tTo = 0

TimerArmed(c) ==
    Waiting(c) \/ call[c].chk # "off" \/ PollLive(c) \/ call[c].to # "off"

\* the longest continuous-busy age the properties read
AgeCap == StartTimeoutDelay

\* 50 ms pass.  Engine events are tasks queued on the event loop: they are
\* dispatched before the next 50 ms have gone by.
Tick ==
    /\ \E c \in Calls : TimerArmed(c)
    /\ events = <<>>
    /\ \A c \in Calls : ~TimerDue(c)
    /\ call' = [c \in Calls |->
                  [call[c] EXCEPT
                     !.t = IF Waiting(c) THEN @ - 1 ELSE @,
                     !.tChk = IF call[c].chk # "off" THEN @ - 1 ELSE @,
                     !.tPoll = IF PollLive(c) THEN @ - 1 ELSE @,
                     !.tTo = IF call[c].to # "off" THEN @ - 1 ELSE @,
                     !.age = IF call[c].contBusy /\ @ < AgeCap THEN @ + 1 ELSE @]]
    /\ UNCHANGED <<queue, headStarted, events, isSpeaking, cur>>
    /\ Unchanged_voices
    /\ Unchanged_text

\* ------------------------------------------------------------- specification
Next ==
    \/ \E c \in Calls, text \in SpeakTexts : Speak(c, text)
    \/ \E c \in Calls : SleepDone(c)
    \/ \E c \in Calls : PreSubmitDone(c)
    \/ \E c \in Calls : CancelWaitDone(c)
    \/ \E c \in Calls : FirstCheck(c)
    \/ \E c \in Calls : SecondCheck(c)
    \/ \E c \in Calls : ImmediateRetry(c)
    \/ \E c \in Calls : PollTick(c)
    \/ \E c \in Calls : StartTimeout(c)
    \/ \E c \in Calls : RetryCreate(c)
    \/ \E c \in Calls : RetrySubmit(c)
    \/ Deliver
    \/ \E fire \in BOOLEAN : EngineStart(fire)
    \/ \E fire \in BOOLEAN : EngineFinish(fire)
    \/ StopButton
    \/ Tick

Spec == Init /\ [][Next]_vars

\* ------------------------------------------------------------- cleanTextForTTS on its own
\* textOut before cleanTextForTTS has been applied
NotCleaned == <<0 - 1>>

InitClean ==
    /\ queue = <<>>
    /\ headStarted = FALSE
    /\ events = <<>>
    /\ isSpeaking = FALSE
    /\ cur = NoUtt
    /\ platformVoices = SomeVoices
    /\ voicesRef = SomeVoices
    /\ voicesLoadedRef = TRUE
    /\ boot = BootDone
    /\ call = [c \in Calls |-> NewCall]
    /\ textIn \in Texts
    /\ textOut = NotCleaned

\* line 266: const cleanedText = cleanTextForTTS(text)
Clean ==
    /\ textOut = NotCleaned
    /\ textOut' = cleanTextForTTS(textIn)
    /\ UNCHANGED <<queue, headStarted, events, isSpeaking, cur, call, textIn>>
    /\ Unchanged_voices

NextClean == Clean

SpecClean == InitClean /\ [][NextClean]_vars

\* ------------------------------------------------------------- engine calls that raise
\* speechSynthesis.speak(utterance) of line 426 raises: the catch of lines
\* 595-598 resets isSpeaking and the ref; the checks, the status interval and
\* the start timeout (lines 441-594) are never armed
SubmitThrows(c) ==
    /\ \/ call[c].pc = "preSubmit" /\ ~Busy
       \/ call[c].pc = "cancelWait"
    /\ call[c].t = 0
    /\ isSpeaking' = FALSE
    /\ cur' = NoUtt
    /\ call' = Track([call EXCEPT ![c].pc = "failed", ![c].t = 0], queue, NoUtt)
    /\ Unchanged_engine
    /\ Unchanged_voices
    /\ Unchanged_text

\* speechSynthesis.speak(utterance) of line 467 raises inside its timer
\* callback, where no try block encloses it
ImmediateRetryThrows(c) ==
    /\ call[c].chk = "imm"
    /\ call[c].tChk = 0
    /\ call' = Track([call EXCEPT ![c].chk = "off"], queue, cur)
    /\ UNCHANGED <<queue, headStarted, events, isSpeaking, cur>>
    /\ Unchanged_voices
    /\ Unchanged_text

\* new SpeechSynthesisUtterance of line 560 raises: the catch of lines
\* 588-590 logs the error
RetryCreateThrows(c) ==
    /\ call[c].to = "create"
    /\ call[c].tTo = 0
    /\ call' = Track([call EXCEPT ![c].to = "off"], queue, cur)
    /\ UNCHANGED <<queue, headStarted, events, isSpeaking, cur>>
    /\ Unchanged_voices
    /\ Unchanged_text

\* speechSynthesis.speak(retryUtterance) of line 585 raises inside its timer
\* callback, outside the try block of line 559
RetrySubmitThrows(c) ==
    /\ call[c].to = "submit"
    /\ call[c].tTo = 0
    /\ call' = Track([call EXCEPT ![c].to = "off"], queue, cur)
    /\ UNCHANGED <<queue, headStarted, events, isSpeaking, cur>>
    /\ Unchanged_voices
    /\ Unchanged_text

\* the controller on an engine whose calls may raise
NextThrow ==
    \/ Next
    \/ \E c \in Calls : SubmitThrows(c)
    \/ \E c \in Calls : ImmediateRetryThrows(c)
    \/ \E c \in Calls : RetryCreateThrows(c)
    \/ \E c \in Calls : RetrySubmitThrows(c)

SpecThrow == Init /\ [][NextThrow]_vars

\* ------------------------------------------------------------- voice catalog
\* mutant of LoadGuard: loadVoices stores whatever the platform returns
LoadGuardAlways(voices) == TRUE

\* line 48: voices.length > 0
LoadGuard(voices) == voices # <<>>

\* lines 45-58: loadVoices
loadVoices ==
    /\ voicesRef' = IF LoadGuard(platformVoices) THEN platformVoices ELSE voicesRef
    /\ voicesLoadedRef' = (LoadGuard(platformVoices) \/ voicesLoadedRef)

\* lines 69-75, one tick of checkInterval
CheckInterval ==
    /\ boot.checkInterval
    /\ boot.t = 0
    /\ IF ~voicesLoadedRef
       THEN /\ loadVoices
            /\ boot' = [boot EXCEPT !.t = CheckIntervalPeriod]
       ELSE \* clearInterval: the 3 s timeout of line 78 has nothing left to clear
            /\ boot' = [boot EXCEPT !.checkInterval = FALSE, !.t = 0,
                                    !.clearOn = FALSE, !.left = 0]
            /\ UNCHANGED <<voicesRef, voicesLoadedRef>>
    /\ UNCHANGED <<queue, headStarted, events, isSpeaking, cur, platformVoices, call>>
    /\ Unchanged_text

\* line 78: checkInterval is cleared 3 s after the mount
ClearCheckInterval ==
    /\ boot.clearOn
    /\ boot.left = 0
    /\ boot' = [boot EXCEPT !.checkInterval = FALSE, !.t = 0, !.clearOn = FALSE, !.left = 0]
    /\ UNCHANGED <<queue, headStarted, events, isSpeaking, cur, voicesRef, voicesLoadedRef,
                   platformVoices, call>>
    /\ Unchanged_text

\* the platform changes its voice list; it may announce the change with a
\* voiceschanged event (line 67: some browsers do not)
PlatformVoicesChange(voices, announce) ==
    /\ voices # platformVoices
    /\ boot.changes < MaxVoiceChanges
    /\ platformVoices' = voices
    /\ boot' = [boot EXCEPT !.changed = @ \/ announce, !.changes = @ + 1]
    /\ UNCHANGED <<queue, headStarted, events, isSpeaking, cur, voicesRef, voicesLoadedRef, call>>
    /\ Unchanged_text

\* line 65: window.speechSynthesis.onvoiceschanged = loadVoices
OnVoicesChanged ==
    /\ boot.changed
    /\ loadVoices
    /\ boot' = [boot EXCEPT !.changed = FALSE]
    /\ UNCHANGED <<queue, headStarted, events, isSpeaking, cur, platformVoices, call>>
    /\ Unchanged_text

\* mutant of Exhausted: the interval of waitForVoices never gives up
ExhaustedNever(attempts) == FALSE

\* mutant of Exhausted: the interval of waitForVoices gives up one poll later
ExhaustedLate(attempts) == attempts > maxAttempts

\* line 248: attempts >= maxAttempts
Exhausted(attempts) == attempts >= maxAttempts

\* lines 281-288: handleSpeak reads the platform again when waitForVoices
\* resolved with no voice
DefaultVoices(voices) == voices = <<>> /\ platformVoices # <<>>

\* lines 235-253, one tick of checkVoices, and on resolution the
\* continuation of handleSpeak (lines 279-297)
CheckVoices(c) ==
    /\ call[c].checkVoices
    /\ call[c].t = 0
    /\ LET n == call[c].attempts + 1
           cleared == [call[c] EXCEPT !.checkVoices = FALSE]
       IN IF platformVoices # <<>>
          THEN /\ voicesRef' = platformVoices
               /\ voicesLoadedRef' = TRUE
               /\ GotVoices(c, cleared, platformVoices)
          ELSE IF Exhausted(n)
          THEN /\ voicesRef' = IF DefaultVoices(voicesRef) THEN platformVoices ELSE voicesRef
               /\ voicesLoadedRef' = (DefaultVoices(voicesRef) \/ voicesLoadedRef)
               /\ GotVoices(c, cleared, voicesRef)
          ELSE /\ call' = Track([call EXCEPT ![c].attempts = n, ![c].t = CheckVoicesPeriod],
                                queue, cur)
               /\ UNCHANGED <<cur, voicesRef, voicesLoadedRef>>
    /\ UNCHANGED <<queue, headStarted, events, isSpeaking, platformVoices, boot>>
    /\ Unchanged_text

BootTimerDue ==
    \/ boot.checkInterval /\ boot.t = 0
    \/ boot.clearOn /\ boot.left = 0

\* 50 ms pass for the timers of the voice catalog and for the sleeps of
\* handleSpeak up to speechSynthesis.speak(); a voiceschanged event is
\* dispatched before the next 50 ms have gone by
TickVoices ==
    /\ boot.checkInterval \/ boot.clearOn \/ \E c \in Calls : Waiting(c)
    /\ ~boot.changed
    /\ ~BootTimerDue
    /\ \A c \in Calls : ~(Waiting(c) /\ call[c].t = 0)
    /\ boot' = [boot EXCEPT !.t = IF boot.checkInterval THEN @ - 1 ELSE @,
                            !.left = IF boot.clearOn THEN @ - 1 ELSE @]
    /\ call' = [c \in Calls |-> [call[c] EXCEPT !.t = IF Waiting(c) THEN @ - 1 ELSE @]]
    /\ UNCHANGED <<queue, headStarted, events, isSpeaking, cur, voicesRef, voicesLoadedRef,
                   platformVoices>>
    /\ Unchanged_text

\* The component has just been mounted: loadVoices has run once (line 61),
\* checkInterval and its 3 s timeout are armed.
InitVoices ==
    /\ queue = <<>>
    /\ headStarted = FALSE
    /\ events = <<>>
    /\ isSpeaking = FALSE
    /\ cur = NoUtt
    /\ platformVoices \in VoiceCatalogs
    /\ voicesRef = platformVoices
    /\ voicesLoadedRef = (platformVoices # <<>>)
    /\ boot = [checkInterval |-> TRUE, t |-> CheckIntervalPeriod,
               clearOn |-> TRUE, left |-> CheckIntervalLife, changed |-> FALSE,
               changes |-> 0]
    /\ call = [c \in Calls |-> NewCall]
    /\ textIn = <<>>
    /\ textOut = <<>>

\* the voice catalog and handleSpeak up to speechSynthesis.speak(); what
\* follows the submission is the subject of Spec
NextVoices ==
    \/ \E c \in Calls, text \in SpeakTexts : Speak(c, text)
    \/ \E c \in Calls : SleepDone(c)
    \/ \E c \in Calls : CheckVoices(c)
    \/ \E c \in Calls : PreSubmitDone(c)
    \/ \E c \in Calls : CancelWaitDone(c)
    \/ CheckInterval
    \/ ClearCheckInterval
    \/ \E voices \in VoiceCatalogs, announce \in BOOLEAN : PlatformVoicesChange(voices, announce)
    \/ OnVoicesChanged
    \/ TickVoices

SpecVoices == InitVoices /\ [][NextVoices]_vars

\* ------------------------------------------------------------- voice selection alone
\* catalogs of at most n voices
RECURSIVE CatalogsOfLen(_)
CatalogsOfLen(n) ==
    IF n = 0 THEN {<<>>} ELSE {Append(v, l) : v \in CatalogsOfLen(n - 1), l \in Langs}

Catalogs == UNION {CatalogsOfLen(n) : n \in 1..MaxVoices}

\* the catalog is cached, the engine is idle
InitSelect ==
    /\ queue = <<>>
    /\ headStarted = FALSE
    /\ events = <<>>
    /\ isSpeaking = FALSE
    /\ cur = NoUtt
    /\ platformVoices \in Catalogs
    /\ voicesRef = platformVoices
    /\ voicesLoadedRef = TRUE
    /\ boot = BootDone
    /\ call = [c \in Calls |-> NewCall]
    /\ textIn = <<>>
    /\ textOut = <<>>

NextSelect == \E text \in SpeakTexts : Speak(1, text)

SpecSelect == InitSelect /\ [][NextSelect]_vars

\* ------------------------------------------------------------- properties
\* C1: at every instant at most one utterance submitted by the controller is
\* queued or speaking in the engine.
C1_OneUtteranceInEngine == Len(queue) <= 1

\* the steps that belong to the submitted request of call a: its utterance
\* callbacks, its checks, its poll tick, its timeout and its retry timers
CallbackOf(a) == Deliver /\ Head(events)[1] \in {U(a), R(a)}

StepOf(a) ==
    \/ CallbackOf(a)
    \/ FirstCheck(a) \/ SecondCheck(a) \/ ImmediateRetry(a)
    \/ PollTick(a)
    \/ StartTimeout(a) \/ RetryCreate(a) \/ RetrySubmit(a)

\* C2: once the utterance of a later call b is the current one, no callback,
\* poll tick or timeout of the superseded call a changes isSpeaking or the
\* active-request reference.
C2_SupersededIsInert ==
    [][\A a \in Calls : \A b \in Calls :
          (a < b /\ cur \in {U(b), R(b)} /\ StepOf(a))
              => (isSpeaking' = isSpeaking /\ cur' = cur)]_vars

\* 900 ms (line 493), in units of 50 ms
ConfirmAfter == 18

\* C3: when the engine has been busy without a break for more than 900 ms
\* since the submission of the active request, isSpeaking is true, whether or
\* not a start callback has run.
C3_PollingConfirms ==
    \A c \in Calls : (call[c].contBusy /\ call[c].age > ConfirmAfter) => isSpeaking

\* C3 witness: the polling path alone has confirmed the start
C3_Witness ==
    \E c \in Calls :
        /\ call[c].contBusy
        /\ call[c].age > ConfirmAfter
        /\ ~call[c].startCb
        /\ call[c].det
        /\ isSpeaking

\* C4: a submitted request that is still the current one, whose start
\* callback has not run and none of whose flag reads has found the engine
\* busy, has its 1 s timeout or the retry it starts pending; and when that
\* timeout has fired for such a request, exactly one retry submission follows:
\* none has happened before, no immediate retry is pending, and the retry
\* chain ends with the second submission.
C4_ExactlyOneRetry ==
    \A c \in Calls :
        /\ (/\ call[c].pc = "submitted"
            /\ cur = U(c)
            /\ ~call[c].startCb
            /\ ~call[c].sawBusy) => call[c].to \in {"start", "create"}
        /\ call[c].silent =>
              /\ call[c].chk = "off"
              /\ call[c].to \in {"create", "submit"} => call[c].subs = 1
              /\ call[c].to = "off" => call[c].subs = 2

\* C4 witness: the retry of a silent request has been submitted
C4_Witness ==
    \E c \in Calls : call[c].silent /\ call[c].to = "off" /\ call[c].subs = 2

\* no timer of any call is pending, no event is queued, the engine is idle
Quiescent ==
    /\ \A c \in Calls : ~TimerArmed(c)
    /\ events = <<>>
    /\ queue = <<>>

\* C5: when the retry submission has failed too (the engine is idle again,
\* nothing is pending), the active-request reference is cleared and isSpeaking
\* is false.
C5_RetryFailureIsTerminal ==
    \A c \in Calls :
        (call[c].silent /\ call[c].to = "off" /\ Quiescent)
            => (cur # R(c) /\ ~isSpeaking)

\* C6: at most two engine submissions are made on behalf of one speak() call.
C6_AtMostOneResubmission == \A c \in Calls : call[c].subs <= 2

\* a request is active: it has been submitted and its utterance (or its
\* retry utterance) is still the current one
Active ==
    \E c \in Calls :
        \/ cur = U(c) /\ call[c].pc = "submitted"
        \/ cur = R(c) /\ call[c].to = "off"

\* stopSpeaking can be called now: by the toggle button, which shows the stop
\* side while isSpeaking is true, or as the first step of a handleSpeak call
StopCallable == isSpeaking \/ \E c \in Calls : call[c].pc = "idle"

\* C7: stop() called with no active request issues no cancel and leaves
\* isSpeaking false and the reference empty, and a second stop() right after
\* it finds nothing to do.
C7_StopWithoutRequest ==
    (StopCallable /\ cur = NoUtt)
        => (~StopCancels /\ StopIsSpeaking = FALSE /\ StopCur = NoUtt /\ StopQueue = <<>>)

\* C8: stop() called while a request is active leaves the reference empty,
\* isSpeaking false and the engine idle.
C8_StopClearsActiveRequest ==
    (StopCallable /\ Active)
        => (StopCur = NoUtt /\ StopIsSpeaking = FALSE /\ StopQueue = <<>>)

\* C9: a speak() call whose text is empty after cleaning changes neither the
\* engine, nor isSpeaking, nor the reference, nor the voice catalog, nor the
\* timers and closure variables of any other call.
C9_NoContentNoEffect ==
    [][\A c \in Calls : \A text \in SpeakTexts :
          (cleanTextForTTS(text) = <<>> /\ Speak(c, text))
              => /\ UNCHANGED <<queue, headStarted, events, isSpeaking, cur>>
                 /\ UNCHANGED <<voicesRef, voicesLoadedRef, platformVoices>>
                 /\ \A d \in Calls \ {c} : call'[d] = call[d]]_vars

\* C9 witness: a call has aborted on empty text while an utterance plays
C9_Witness ==
    \E c \in Calls : \E d \in Calls :
        /\ d < c
        /\ call[c].pc = "aborted"
        /\ call[d].pc = "submitted"
        /\ cur = U(d)
        /\ Busy
        /\ isSpeaking

\* Unicode Extended_Pictographic, for the code points up to U+3299 and the
\* emoji blocks of the supplementary plane
IsPictographic(cp) ==
    \/ cp \in {169, 174, 8252, 8265, 8482, 8505, 9000, 9096, 9167, 9410, 9654, 9664,
               10548, 10549, 11035, 11036, 11088, 11093, 12336, 12349, 12951, 12953}
    \/ cp \in 8596..8601
    \/ cp \in 8617..8618
    \/ cp \in 8986..8987
    \/ cp \in 9193..9203
    \/ cp \in 9208..9210
    \/ cp \in 9642..9643
    \/ cp \in 9723..9726
    \/ cp \in 9728..9733
    \/ cp \in 9735..9746
    \/ cp \in 9748..9861
    \/ cp \in 9872..9989
    \/ cp \in 9992..10002
    \/ cp \in {10004, 10006, 10013, 10017, 10024, 10035, 10036, 10052, 10055, 10060,
               10062, 10067, 10068, 10069, 10071, 10145, 10160, 10175}
    \/ cp \in 10083..10087
    \/ cp \in 10133..10135
    \/ cp \in 11013..11015
    \/ cp \in 126976..127231
    \/ cp \in 127245..127247
    \/ cp \in 127340..127345
    \/ cp \in 127358..127359
    \/ cp \in 127377..127386
    \/ cp \in 127405..127461
    \/ cp \in 127489..127503
    \/ cp \in 127548..127551
    \/ cp \in 127561..127994
    \/ cp \in 128000..128317
    \/ cp \in 128326..128591
    \/ cp \in 128640..128767
    \/ cp \in 129292..129338
    \/ cp \in 129340..129349
    \/ cp \in 129351..129791

RECURSIVE CodePoints(_)
\* the code points of a text, a surrogate without its partner standing for
\* itself
CodePoints(text) ==
    IF text = <<>> THEN <<>>
    ELSE IF SurrogatePair(text)
         THEN <<CodePointOf(text[1], text[2])>> \o CodePoints(SubSeq(text, 3, Len(text)))
         ELSE <<Head(text)>> \o CodePoints(Tail(text))

RECURSIVE CodeUnits(_)
\* the UTF-16 code units of a sequence of code points
CodeUnits(cps) ==
    IF cps = <<>> THEN <<>>
    ELSE (IF Head(cps) >= 65536
          THEN <<55296 + ((Head(cps) - 65536) \div 1024), 56320 + ((Head(cps) - 65536) % 1024)>>
          ELSE <<Head(cps)>>) \o CodeUnits(Tail(cps))

\* C10: cleanTextForTTS maps every text made only of pictographic code points
\* and whitespace to the empty text.
C10_PictographicOnlyIsEmpty ==
    (/\ textOut # NotCleaned
     /\ \A i \in 1..Len(CodePoints(textIn)) :
            IsPictographic(CodePoints(textIn)[i]) \/ IsSpace(CodePoints(textIn)[i]))
        => textOut = <<>>

\* what the sanitization is to remove: pictographic code points, the
\* variation selectors U+FE00-FE0F and the zero-width joiner U+200D
IsRemovable(cp) == IsPictographic(cp) \/ cp \in 65024..65039 \/ cp = 8205

KeptCodePoint(cp) == ~IsRemovable(cp)

\* the text an utterance is to carry: removable code points dropped, every
\* whitespace run collapsed to one space, both ends trimmed
SanitizedReference(text) ==
    Trim(CollapseSpaces(CodeUnits(SelectSeq(CodePoints(text), KeptCodePoint))))

\* C11: for every text with at least one code point that is neither
\* pictographic nor whitespace (nor a variation selector or joiner), the text
\* given to the utterance is the input without the removable code points,
\* with whitespace runs collapsed and the ends trimmed, and it is not empty.
C11_SubmittedTextIsSanitized ==
    (/\ textOut # NotCleaned
     /\ \E i \in 1..Len(CodePoints(textIn)) :
            ~IsRemovable(CodePoints(textIn)[i]) /\ ~IsSpace(CodePoints(textIn)[i]))
        => (textOut = SanitizedReference(textIn) /\ textOut # <<>>)

\* the three ranks of a language tag for the target "ko-KR", read off the tag
\* itself
TagIsTarget(tag) == tag = <<"k", "o", "-", "K", "R">>
TagHasLanguage(tag) == Len(tag) >= 2 /\ tag[1] = "k" /\ tag[2] = "o"
TagHasRegion(tag) == \E i \in 1..(Len(tag) - 1) : tag[i] = "K" /\ tag[i + 1] = "R"

\* voice k of the catalog is the first one of its rank
FirstTarget(catalog, k) ==
    /\ TagIsTarget(catalog[k])
    /\ \A j \in 1..(k - 1) : ~TagIsTarget(catalog[j])
FirstLanguage(catalog, k) ==
    /\ TagHasLanguage(catalog[k])
    /\ \A j \in 1..(k - 1) : ~TagHasLanguage(catalog[j])
FirstRegion(catalog, k) ==
    /\ TagHasRegion(catalog[k])
    /\ \A j \in 1..(k - 1) : ~TagHasRegion(catalog[j])

\* C12: over a non-empty catalog the utterance gets the first voice whose
\* tag is "ko-KR"; if there is none, the first whose tag starts with "ko"; if
\* there is none, the first whose tag contains "KR"; if there is none, the
\* first voice of the catalog.
C12_VoicePriority ==
    call[1].pc = "preSubmit" =>
        LET catalog == platformVoices
            k == call[1].voice
            idx == 1..Len(catalog)
        IN /\ k \in idx
           /\ IF \E i \in idx : TagIsTarget(catalog[i]) THEN FirstTarget(catalog, k)
              ELSE IF \E i \in idx : TagHasLanguage(catalog[i]) THEN FirstLanguage(catalog, k)
              ELSE IF \E i \in idx : TagHasRegion(catalog[i]) THEN FirstRegion(catalog, k)
              ELSE k = 1

\* the catalog [en-US, ko-KR, ko] has been searched and the exact match,
\* its second voice, was taken
C12_Witness ==
    /\ call[1].pc = "preSubmit"
    /\ platformVoices = <<EnUS, KoKR, Ko>>
    /\ call[1].voices = platformVoices
    /\ call[1].voice = 2

\* the platform has had no voice at any instant since the mount
NeverAnyVoice == platformVoices = <<>> /\ boot.changes = 0

\* C13: while the platform has never had a voice, a call with text to speak
\* does not wait for voices beyond the polls of waitForVoices, and once past
\* them it has an utterance with no voice selected, which it submits.
C13_NoVoicesStillSubmits ==
    NeverAnyVoice =>
        \A c \in Calls :
            /\ call[c].pc = "voicesWait" => call[c].attempts < maxAttempts
            /\ call[c].pc \in {"busyWait", "preSubmit", "cancelWait", "submitted"} =>
                   call[c].voices = <<>>
            /\ call[c].pc \in {"preSubmit", "cancelWait", "submitted"} => call[c].voice = 0
            /\ call[c].pc = "submitted" => call[c].subs >= 1

\* a call has submitted its utterance, with no voice, to the engine of a
\* platform that has never had a voice
C13_Witness ==
    /\ NeverAnyVoice
    /\ voicesRef = <<>>
    /\ \E c \in Calls :
          /\ call[c].pc = "submitted"
          /\ call[c].voice = 0
          /\ U(c) \in QueueSet(queue)

\* C14: once the catalog is marked loaded with a non-empty set of voices, no
\* step clears it: the cached catalog stays non-empty and the loaded flag
\* stays true.
C14_CatalogNeverCleared == [][VoicesCached => VoicesCached']_vars

\* the catalog is cached, the platform now returns an empty list, and a call
\* has taken its voice from the cache
C14_Witness ==
    /\ VoicesCached
    /\ platformVoices = <<>>
    /\ ~boot.changed
    /\ \E c \in Calls :
          /\ call[c].pc = "preSubmit"
          /\ call[c].voices = voicesRef
          /\ call[c].voice # 0

\* C15: once a non-empty catalog is cached, no step makes the cached catalog
\* smaller.
C15_CatalogNeverShrinks == [][VoicesCached => Len(voicesRef') >= Len(voicesRef)]_vars

\* a step in which call c calls waitForVoices: the call is past
\* stopSpeaking, at once or after its 100 ms
CallsWaitForVoices(c) ==
    /\ call[c].pc \in {"idle", "stopWait"}
    /\ call'[c].pc \notin {"idle", "stopWait", "aborted"}

\* C16: waitForVoices resolves at once when the platform returns voices at
\* the call; otherwise within maxAttempts polls, the last of which resolves
\* with the cached catalog; the interval of a resolved call is cleared.
C16_WaitForVoicesResolves ==
    [][\A c \in Calls :
         /\ (CallsWaitForVoices(c) /\ platformVoices # <<>>) =>
                (~call'[c].checkVoices /\ call'[c].voices # <<>>)
         /\ call'[c].checkVoices => call'[c].attempts < maxAttempts
         /\ (call[c].checkVoices /\ ~call'[c].checkVoices /\ platformVoices = <<>>) =>
                (call[c].attempts = maxAttempts - 1 /\ call'[c].voices = voicesRef)
         /\ call'[c].checkVoices <=> call'[c].pc = "voicesWait"]_vars

\* the polls of a call came to their end on a platform without voices, and
\* the call went on with the empty cached catalog
C16_Witness ==
    \E c \in Calls :
        /\ call[c].pc = "preSubmit"
        /\ call[c].t = PreSubmitDelay
        /\ ~call[c].checkVoices
        /\ call[c].voices = <<>>
        /\ platformVoices = <<>>
        /\ ~voicesLoadedRef

\* the calls whose waitForVoices interval is armed
PollingCalls == {c \in Calls : call[c].checkVoices}

\* C17: at most one polling loop of waitForVoices is pending at any time.
C17_SingleFlight == Cardinality(PollingCalls) <= 1

\* C18: once a non-empty catalog is cached, a call of waitForVoices resolves
\* in the same step with the cached catalog, whatever the platform would
\* return now, starts no interval and leaves the cache as it is.
C18_CacheHitNoPolling ==
    [][\A c \in Calls :
         (CallsWaitForVoices(c) /\ voicesLoadedRef /\ voicesRef # <<>>) =>
             /\ ~call'[c].checkVoices
             /\ call'[c].voices = voicesRef
             /\ voicesRef' = voicesRef
             /\ voicesLoadedRef']_vars

\* a call has just taken the cached catalog although the platform now
\* returns another, non-empty list
C18_Witness ==
    /\ voicesLoadedRef
    /\ voicesRef # <<>>
    /\ platformVoices # <<>>
    /\ platformVoices # voicesRef
    /\ \E c \in Calls :
          /\ call[c].pc = "preSubmit"
          /\ call[c].t = PreSubmitDelay
          /\ call[c].voices = voicesRef

\* the step dispatches the start event of an utterance to its callback
StartCallbackStep ==
    /\ events # <<>>
    /\ Head(events)[2] = "start"
    /\ events' = Tail(events)

\* the step is a tick of the status interval of the active request that finds
\* the engine busy after two ticks in a row that found it busy
ThirdBusyTickStep ==
    \E c \in Calls :
        /\ cur = U(c)
        /\ call[c].pollOn
        /\ call[c].tPoll = 0
        /\ Busy
        /\ call[c].cnt >= 2
        /\ call'[c].det

\* C19: isSpeaking goes from false to true only in a step that runs a start
\* callback or in the third of three consecutive busy ticks of the status
\* interval of the active request.
C19_NeverOptimistic ==
    [][(~isSpeaking /\ isSpeaking') => (StartCallbackStep \/ ThirdBusyTickStep)]_vars

\* isSpeaking was set by the status interval of the active request, whose
\* start callback has not run
C19_Witness ==
    /\ isSpeaking
    /\ \E c \in Calls :
          /\ cur = U(c)
          /\ call[c].det
          /\ ~call[c].startCb

\* the step dispatches the end or error event of utterance u, which is the
\* active request, to its callback
EndCallbackOfActive(u) ==
    /\ events # <<>>
    /\ Head(events) = <<u, "finish">>
    /\ cur = u
    /\ events' = Tail(events)

\* C20: when the end or error callback of the active request runs, the ref
\* is cleared, isSpeaking is false, and the request of that call has no
\* status interval, no start timeout with its retry timers and no pending
\* resubmission left.
C20_TerminalCallbackCleansUp ==
    [][\A c \in Calls :
         (EndCallbackOfActive(U(c)) \/ EndCallbackOfActive(R(c))) =>
             /\ cur' = NoUtt
             /\ ~isSpeaking'
             /\ ~call'[c].pollOn
             /\ call'[c].to = "off"
             /\ call'[c].chk # "imm"]_vars

\* C21: once the end or error callback of a request has run while it was the
\* active request (terminal, a history field), no step submits an utterance
\* of that request to the engine or makes one of them the active request.
C21_TerminalIsFinal ==
    [][\A c \in Calls :
         call[c].terminal =>
             /\ call'[c].subs = call[c].subs
             /\ (cur' \in {U(c), R(c)} => cur' = cur)]_vars

\* a step in which an engine call made for call c raises
Raises(c) ==
    SubmitThrows(c) \/ ImmediateRetryThrows(c) \/ RetryCreateThrows(c) \/ RetrySubmitThrows(c)

\* C22: when an engine call made for a call raises, the step ends with
\* isSpeaking false and the ref cleared.
C22_FailureResetsState ==
    [][\A c \in Calls : Raises(c) => (~isSpeaking' /\ cur' = NoUtt)]_vars

\* C23: a request confirmed by the status interval keeps that interval while
\* it is the active request, and the tick of it that finds the engine not
\* busy ends the request: isSpeaking false, ref cleared, interval stopped.
C23_PollingDetectsEnd ==
    [][\A c \in Calls :
         /\ (call'[c].det /\ cur' = U(c)) => call'[c].pollOn
         /\ (PollTick(c) /\ call[c].det /\ ~Busy) =>
                (~isSpeaking' /\ cur' = NoUtt /\ ~call'[c].pollOn)]_vars

\* the status interval of a call has ended its request, whose end or error
\* callback has not run
C23_Witness ==
    \E c \in Calls :
        /\ call[c].pollEnded
        /\ ~call[c].terminal
        /\ ~call[c].pollOn
        /\ cur = NoUtt
        /\ ~isSpeaking

\* C24: the retry of a call is carried on only while its request is the
\* active one: the retry utterance is created only if the ref still holds the
\* utterance of the call, and submitted only if the ref holds that retry
\* utterance.
C24_RetryOnlyWhileActive ==
    [][\A c \in Calls :
         /\ RetryCreate(c) => cur = U(c)
         /\ RetrySubmit(c) => cur = R(c)]_vars

\* C25: whenever isSpeaking is true, the ref holds an utterance.
C25_SpeakingHasActiveRequest == isSpeaking => cur # NoUtt

\* call c has no timer left that could still change isSpeaking on an idle
\* engine: no sleep, no check, no start timeout with its retry timers, and a
\* status interval, if it still looks at the active request, that has not
\* confirmed a start (on an idle engine such a tick only resets its count)
NoRecoveryLeft(c) ==
    /\ ~Waiting(c)
    /\ call[c].chk = "off"
    /\ call[c].to = "off"
    /\ PollLive(c) => ~call[c].det

\* C26: isSpeaking does not stay true once the engine is idle for good.  In
\* a state where the engine is idle, no event is queued and no call has a
\* timer left that could change isSpeaking, only a new call of handleSpeak
\* can change it, so there it has to be false already.
C26_SpeakingClearsWhenIdle ==
    (/\ queue = <<>>
     /\ events = <<>>
     /\ \A c \in Calls : NoRecoveryLeft(c)) => ~isSpeaking

\* C27: while the utterance of a call is the active request, not confirmed
\* (no start callback, no confirmation by the status interval) and the engine
\* is busy, the status interval or the start timeout of the call (or the
\* retry it has begun) is still pending.
C27_DetectionPending ==
    \A c \in Calls :
        (/\ cur = U(c)
         /\ call[c].pc = "submitted"
         /\ ~call[c].det
         /\ ~call[c].startCb
         /\ Busy) => (call[c].pollOn \/ call[c].to # "off")

\* the start of the utterance of call c has been confirmed, by its start
\* callback or by its status interval
StartConfirmed(c) == call[c].startCb \/ call[c].det

\* C28: neither the check 600 ms after the submission nor the start timeout
\* begins a resubmission for a call whose utterance has a confirmed start.
C28_NoResubmitAfterStart ==
    [][\A c \in Calls :
         /\ (SecondCheck(c) /\ call'[c].chk = "imm") => ~StartConfirmed(c)
         /\ (StartTimeout(c) /\ call'[c].to = "create") => ~StartConfirmed(c)]_vars

\* C29: once the stop button has called stopSpeaking while a handleSpeak call
\* was in one of its sleeps before the submission, and no handleSpeak call has
\* been made after that one, the call does not submit its utterance.
C29_StopAbortsPendingSpeak ==
    \A c \in Calls :
        (/\ call[c].stopped
         /\ \A d \in Calls : d > c => call[d].pc = "idle") => call[c].subs = 0

\* a code point of one of the ranges that cleanTextForTTS removes
InStripRanges(cp) ==
    \E i \in 1..Len(StripRanges) : cp >= StripRanges[i][1] /\ cp <= StripRanges[i][2]

\* C30: cleaning a cleaned text changes nothing, and a cleaned text has no
\* code point of the removed ranges, no whitespace at either end and no two
\* whitespace characters next to each other.
C30_CleanIsIdempotentAndNormal ==
    textOut # NotCleaned =>
        /\ cleanTextForTTS(textOut) = textOut
        /\ \A i \in 1..Len(CodePoints(textOut)) : ~InStripRanges(CodePoints(textOut)[i])
        /\ textOut # <<>> => (~IsSpace(textOut[1]) /\ ~IsSpace(textOut[Len(textOut)]))
        /\ \A i \in 1..(Len(textOut) - 1) : ~(IsSpace(textOut[i]) /\ IsSpace(textOut[i + 1]))

====
